---- MODULE Spec2Model ----
(***************************************************************************)
(* A model of the image-prompt adapter of refiners:                        *)
(*   - the chain tree of a target U-Net, the CrossAttentionAdapter         *)
(*     sub-adapters and the composite IPAdapter with its inject / eject    *)
(*     life cycle and its scale,                                           *)
(*   - the context store read by the injected ImageCrossAttention nodes,   *)
(*   - the prefixed weight loading of IPAdapter.__init__,                  *)
(*   - compute_image_embedding,                                            *)
(*   - the DDIM scheduler's timesteps and step,                            *)
(*   - the constructors of the adapters, SD1IPAdapter and                  *)
(*     get_sd1_image_proj.                                                 *)
(***************************************************************************)
EXTENDS Integers, Sequences, FiniteSets, TLC

VARIABLES
    \* ---- construction arguments of the IPAdapter (fixed after Init)
    nBlocks,        \* number of transformer blocks of the target U-Net
    usePooled,      \* use_pooled_text_embedding
    useTimestep,    \* use_timestep_embedding
    hasParent,      \* whether the target U-Net sits inside a host chain
    \* ---- fields set by the constructors (fixed after Init)
    sub_adapters,   \* IPAdapter.sub_adapters, in construction order
    target,         \* adapter node -> the module it wraps (Adapter.target)
    parentOf,       \* adapter node -> the chain holding its target at set-up
    \* ---- the live chain tree and the adapters
    children,       \* chain node -> ordered children
    injected,       \* adapter node -> injection state flag (TRUE = INJECTED)
    opLog,          \* the steps the last inject / eject call completed, in order
    caScale,        \* sub-adapter index -> CrossAttentionAdapter._scale
    icaScale,       \* sub-adapter index -> ImageCrossAttention._scale
    mulScale,       \* sub-adapter index -> scale of the Multiply node
    \* ---- the context store and the forward passes
    numLayers,      \* PerceiverResampler num_attention_layers
    ctx,            \* context key -> last value written (None when unset)
    written,        \* the keys whose value was written, not declared
    passLog,        \* the context reads and writes of the pass the last call ran
    lastImage,      \* argument of the last set_image_embedding (None: never)
    passesSinceSet, \* forward passes since that call, counted up to MaxPasses
    \* ---- IPAdapter.__init__ weight loading
    hasWeights,     \* weights is not None
    weights,        \* the flat weight map: key -> value
    strict,         \* the strict argument
    delivered,      \* submodule -> the state dict handed to its load_state_dict
    \* ---- the DDIM scheduler
    num_inference_steps,
    num_train_timesteps,
    timesteps,      \* DDIM.timesteps, index 1 is the code's index 0
    stepResult,     \* what the last DDIM.__call__ looked up
    \* ---- compute_image_embedding
    image_prompt,   \* the batch: a sequence of images
    embWeights,     \* [given, list]: the weights argument (given = not None)
    div_factor,
    concat_batches,
    fine_grained,
    embResult,      \* the returned tensor: a sequence of rows of tokens
    \* ---- SD1IPAdapter.__init__ and get_sd1_image_proj
    sd1Args,        \* the arguments of the call
    sd1Result,      \* what the call built, or the error it raised
    \* ---- the outcome of the last call
    lastOp,         \* name of the last operation called
    lastArg,        \* its argument (0 when it has none)
    lastErr,        \* "ok" or the error the call raised
    lastRet,        \* the value it returned (0 when none)
    everFailed      \* some call so far raised an error

treeVars == <<children, injected, opLog>>
scaleVars == <<caScale, icaScale, mulScale>>
cfgVars == <<nBlocks, usePooled, useTimestep, hasParent, sub_adapters, target, parentOf>>
ctxVars == <<numLayers, ctx, written, passLog, lastImage, passesSinceSet>>
weightVars == <<hasWeights, weights, strict, delivered>>
ddimVars == <<num_inference_steps, num_train_timesteps, timesteps, stepResult>>
embVars == <<image_prompt, embWeights, div_factor, concat_batches, fine_grained, embResult>>
sd1Vars == <<sd1Args, sd1Result>>
pureVars == <<weightVars, ddimVars, embVars, sd1Vars>>
callVars == <<lastOp, lastArg, lastErr, lastRet, everFailed>>

(***************************************************************************)
(* Bounds of the model.                                                    *)
(***************************************************************************)
MaxBlocks == 2      \* the target has 1..MaxBlocks transformer blocks
MaxChildren == 5    \* the target's child list is never grown beyond this
MaxScale == 1       \* scales are drawn from 0..MaxScale
MaxVal == 2         \* embeddings are drawn from 1..MaxVal
MaxPasses == 2      \* forward passes are counted up to MaxPasses
MaxSteps == 6       \* num_inference_steps is drawn from 1..MaxSteps
MaxTrain == 8       \* num_train_timesteps is drawn from 1..MaxTrain
MaxBatch == 2       \* a batch holds 1..MaxBatch images
MaxWeight == 2      \* image weights are drawn from 0..MaxWeight
NumTokens == 2      \* tokens per image embedding
NumDevices == 2     \* devices are 1..NumDevices
NumDTypes == 2      \* dtypes are 1..NumDTypes

OK == "ok"
InvalidAdapterState == "InvalidAdapterState"
IndexError == "IndexError"
ContextMiss == "ContextMiss"
WeightMismatch == "WeightMismatch"
AssertionError == "AssertionError"
TypeError == "TypeError"
NameError == "NameError"

(***************************************************************************)
(* Nodes.  A node is <<kind, index>>; identity is equality of the pair.    *)
(***************************************************************************)
NoNode == <<"none", 0>>
Host == <<"host", 0>>               \* an optional chain holding the target
Pre == <<"pre", 0>>                 \* a sibling before the target
Post == <<"post", 0>>               \* a sibling after the target
UNet == <<"unet", 0>>               \* the target of the IPAdapter
Conv == <<"conv", 0>>               \* first child of the target
IP == <<"ip", 0>>                   \* the IPAdapter chain itself
Proj == <<"proj", 0>>               \* pooled_text_embedding_proj
Blk(i) == <<"blk", i>>              \* transformer block i
SA(i) == <<"sa", i>>                \* fl.SelfAttention of block i
CA(i) == <<"ca", i>>                \* fl.Attention (cross attention) of block i
XA(k) == <<"xadapter", k>>          \* CrossAttentionAdapter number k (from 0)
Clone(k) == <<"clone", k>>          \* structural copy of the k-th target

QKV(i) == <<"qkv", i>>              \* projections of attention i (i > 0: the
SDPA(i) == <<"sdpa", i>>            \*   cross attention of block i, i < 0: the
Out(i) == <<"out", i>>              \*   self attention of block -i)
QKVc(k) == <<"qkv_copy", k>>        \* the copies held by Clone(k)
SDPAc(k) == <<"sdpa_copy", k>>
Outc(k) == <<"out_copy", k>>
SumN(k) == <<"sum", k>>             \* fl.Sum(scaled_dot_product, image_cross_attention)
ICA(k) == <<"ica", k>>              \* ImageCrossAttention of sub-adapter k

Extra(j) == <<"extra", j>>          \* a module a caller inserts in the target
Kind(n) == n[1]

\* The tree of a target with n blocks, before any adapter is built.
TargetTree(n, withHost) ==
    [c \in ({UNet} \cup {Blk(i) : i \in 1..n} \cup {SA(i) : i \in 1..n}
             \cup {CA(i) : i \in 1..n}
             \cup (IF withHost THEN {Host} ELSE {})) |->
        CASE c = UNet -> <<Conv>> \o [i \in 1..n |-> Blk(i)]
          [] c = Host -> <<Pre, UNet, Post>>
          [] Kind(c) = "blk" -> <<SA(c[2]), CA(c[2])>>
          [] Kind(c) = "sa" -> <<QKV(-c[2]), SDPA(-c[2]), Out(-c[2])>>
          [] Kind(c) = "ca" -> <<QKV(c[2]), SDPA(c[2]), Out(c[2])>>]

(***************************************************************************)
(* Chain operations (fluxion Chain: walk, replace, insert, pop).           *)
(***************************************************************************)
\* Depth-first pre-order walk of the descendants listed in s.
RECURSIVE WalkSeq(_, _)
WalkSeq(t, s) ==
    IF s = <<>> THEN <<>>
    ELSE LET n == Head(s)
         IN <<n>> \o (IF n \in DOMAIN t THEN WalkSeq(t, t[n]) ELSE <<>>)
                  \o WalkSeq(t, Tail(s))

\* target.layers(fl.Attention): the Attention layers in structural order.
IsAttention(n) == Kind(n) \in {"sa", "ca"}
Layers(t, root) == SelectSeq(WalkSeq(t, t[root]), IsAttention)

Contains(s, x) == \E k \in 1..Len(s) : s[k] = x
IndexOf(s, x) == CHOOSE k \in 1..Len(s) : s[k] = x /\ \A j \in 1..(k - 1) : s[j] # x

\* Chain.replace: the first slot holding old now holds new.
ChainReplace(s, old, new) == [s EXCEPT ![IndexOf(s, old)] = new]
\* Chain.insert(0, m)
ChainInsert0(s, m) == <<m>> \o s
\* Chain.pop(0)
ChainPop0(s) == Tail(s)

(***************************************************************************)
(* IPAdapter.__init__: the sub-adapters and the chains they hold.          *)
(***************************************************************************)
\* filter(lambda attn: type(attn) != fl.SelfAttention, target.layers(fl.Attention))
NotSelfAttention(n) == Kind(n) # "sa"
SubTargets(n) == SelectSeq(Layers(TargetTree(n, FALSE), UNet), NotSelfAttention)
NumSub(n) == Len(SubTargets(n))
SubAdapters(n) == [k \in 1..NumSub(n) |-> XA(k - 1)]
SubIdx(n) == 0..(NumSub(n) - 1)
Subs == 0..(Len(sub_adapters) - 1)

Adapters(n) == {IP} \cup {XA(k) : k \in SubIdx(n)}

\* The module an adapter wraps (Adapter.target).
Target(n, a) == IF a = IP THEN UNet ELSE SubTargets(n)[a[2] + 1]

\* The chain holding the target when the adapter was set up.
CapturedParent(n, withHost, a) ==
    LET t == TargetTree(n, withHost)
        holders == {c \in DOMAIN t : Contains(t[c], Target(n, a))}
    IN IF holders = {} THEN NoNode ELSE CHOOSE c \in holders : TRUE

\* The chains the adapters own: IPAdapter(target), CrossAttentionAdapter(clone)
\* with clone.replace(scaled_dot_product, Sum(scaled_dot_product, ica)).
AdapterTree(n) ==
    [c \in ({IP} \cup {XA(k) : k \in SubIdx(n)} \cup {Clone(k) : k \in SubIdx(n)}
             \cup {SumN(k) : k \in SubIdx(n)}) |->
        CASE c = IP -> <<UNet>>
          [] Kind(c) = "xadapter" -> <<Clone(c[2])>>
          [] Kind(c) = "clone" ->
                ChainReplace(<<QKVc(c[2]), SDPAc(c[2]), Outc(c[2])>>,
                             SDPAc(c[2]), SumN(c[2]))
          [] Kind(c) = "sum" -> <<SDPAc(c[2]), ICA(c[2])>>]

ConstructedTree(n, withHost) ==
    LET t == TargetTree(n, withHost)
        a == AdapterTree(n)
    IN [c \in DOMAIN t \cup DOMAIN a |-> IF c \in DOMAIN t THEN t[c] ELSE a[c]]

(***************************************************************************)
(* The constructors, step by step, on a tree t (chain -> children).        *)
(***************************************************************************)
\* Chain.structural_copy: every node of the copy is a new node.
CopyOf(n, k) ==
    CASE Kind(n) = "qkv" -> QKVc(k)
      [] Kind(n) = "sdpa" -> SDPAc(k)
      [] Kind(n) = "out" -> Outc(k)
StructuralCopy(s, k) == [j \in 1..Len(s) |-> CopyOf(s[j], k)]

\* clone.ensure_find(ScaledDotProductAttention)
EnsureFindSDPA(s) ==
    s[CHOOSE j \in 1..Len(s) :
          /\ Kind(s[j]) \in {"sdpa", "sdpa_copy"}
          /\ \A i \in 1..(j - 1) : Kind(s[i]) \notin {"sdpa", "sdpa_copy"}]

\* A CrossAttentionAdapter.__init__ that edits the target instead of a copy.
CrossAttentionAdapterInitInPlace(t, tgt, k) ==
    LET scaled_dot_product == EnsureFindSDPA(t[tgt])
    IN (XA(k) :> <<tgt>>)
       @@ (SumN(k) :> <<scaled_dot_product, ICA(k)>>)
       @@ [t EXCEPT ![tgt] = ChainReplace(@, scaled_dot_product, SumN(k))]

\* CrossAttentionAdapter.__init__(target): the chains of adapter number k
\* are added to the tree; clone.replace acts on the clone's child list.
CrossAttentionAdapterInit(t, tgt, k) ==
    LET clone == StructuralCopy(t[tgt], k)
        scaled_dot_product == EnsureFindSDPA(clone)
    IN (XA(k) :> <<Clone(k)>>)
       @@ (Clone(k) :> ChainReplace(clone, scaled_dot_product, SumN(k)))
       @@ (SumN(k) :> <<scaled_dot_product, ICA(k)>>)
       @@ t

\* self.sub_adapters = [CrossAttentionAdapter(target=cross_attn, ...) for ...]
RECURSIVE BuildSubAdapters(_, _, _)
BuildSubAdapters(t, targets, k) ==
    IF targets = <<>> THEN t
    ELSE BuildSubAdapters(CrossAttentionAdapterInit(t, Head(targets), k), Tail(targets), k + 1)

\* IPAdapter.__init__(target): super().__init__(target), then the sub-adapters
\* of the target's Attention layers that are not SelfAttention.
IPAdapterInit(t) ==
    LET targets == SelectSeq(Layers(t, UNet), NotSelfAttention)
    IN [tree |-> BuildSubAdapters((IP :> <<UNet>>) @@ t, targets, 0),
        subs |-> [k \in 1..Len(targets) |-> XA(k - 1)],
        targets |-> targets]

\* The chain holding node x in tree t (NoNode when none does).
ParentIn(t, x) ==
    LET holders == {c \in DOMAIN t : Contains(t[c], x)}
    IN IF holders = {} THEN NoNode ELSE CHOOSE c \in holders : TRUE

(***************************************************************************)
(* The adapter life cycle.  A world w is the part of the state a call may  *)
(* change before it raises: [children, injected, err].                     *)
(***************************************************************************)
World == [children |-> children, injected |-> injected, err |-> OK, log |-> <<>>]

\* A completed step of a call: what was done, and to which node.
StepOf(step, node) == [step |-> step, node |-> node]

\* Adapter.inject: valid only from NOT_INJECTED; the target's slot in its
\* parent chain, when it resides in one, now holds the adapter.
AdapterInject(w, a) ==
    IF w.injected[a] THEN [w EXCEPT !.err = InvalidAdapterState]
    ELSE LET p == parentOf[a]
             t == target[a]
         IN IF p # NoNode /\ Contains(w.children[p], t)
            THEN [w EXCEPT !.children[p] = ChainReplace(@, t, a),
                           !.injected[a] = TRUE,
                           !.log = Append(@, StepOf("inject", a))]
            ELSE [w EXCEPT !.injected[a] = TRUE,
                           !.log = Append(@, StepOf("inject", a))]

\* Adapter.eject: valid only from INJECTED; the parent's slot holds the
\* original target again.
AdapterEject(w, a) ==
    IF ~w.injected[a] THEN [w EXCEPT !.err = InvalidAdapterState]
    ELSE LET p == parentOf[a]
             t == target[a]
         IN IF p # NoNode /\ Contains(w.children[p], a)
            THEN [w EXCEPT !.children[p] = ChainReplace(@, a, t),
                           !.injected[a] = FALSE,
                           !.log = Append(@, StepOf("eject", a))]
            ELSE [w EXCEPT !.injected[a] = FALSE,
                           !.log = Append(@, StepOf("eject", a))]

\* for adapter in self.sub_adapters: adapter.inject()
RECURSIVE InjectSubs(_, _)
InjectSubs(w, subs) ==
    IF subs = <<>> THEN w
    ELSE LET w1 == AdapterInject(w, Head(subs))
         IN IF w1.err # OK THEN w1 ELSE InjectSubs(w1, Tail(subs))

\* for adapter in self.sub_adapters: adapter.eject()
RECURSIVE EjectSubs(_, _)
EjectSubs(w, subs) ==
    IF subs = <<>> THEN w
    ELSE LET w1 == AdapterEject(w, Head(subs))
         IN IF w1.err # OK THEN w1 ELSE EjectSubs(w1, Tail(subs))

\* An insert that appends the projector after the target's children.
InsertProjLast(w) ==
    [w EXCEPT !.children[UNet] = Append(@, Proj),
              !.log = Append(@, StepOf("insert", Proj))]

\* self.target.insert(0, self.pooled_text_embedding_proj)
InsertProj(w) ==
    [w EXCEPT !.children[UNet] = ChainInsert0(@, Proj),
              !.log = Append(@, StepOf("insert", Proj))]

\* self.target.pop(0)
PopFirst(w) ==
    IF Len(w.children[UNet]) = 0 THEN [w EXCEPT !.err = IndexError]
    ELSE [w EXCEPT !.children[UNet] = ChainPop0(@),
                   !.log = Append(@, StepOf("pop", Head(w.children[UNet])))]

\* IPAdapter.inject
IPAdapterInject(w) ==
    LET w1 == InjectSubs(w, sub_adapters)
        w2 == IF usePooled THEN InsertProj(w1) ELSE w1
    IN IF w1.err # OK THEN w1 ELSE AdapterInject(w2, IP)

\* IPAdapter.eject that leaves the projector in the target.
IPAdapterEjectKeepsProj(w) ==
    LET w1 == EjectSubs(w, sub_adapters)
    IN IF w1.err # OK THEN w1 ELSE AdapterEject(w1, IP)

\* IPAdapter.eject
IPAdapterEject(w) ==
    LET w1 == EjectSubs(w, sub_adapters)
        w2 == IF usePooled THEN PopFirst(w1) ELSE w1
    IN IF w1.err # OK THEN w1
       ELSE IF w2.err # OK THEN w2
       ELSE AdapterEject(w2, IP)

(***************************************************************************)
(* The scale.  sc is [ca, ica, mul], each a function of the sub-adapter    *)
(* index.                                                                  *)
(***************************************************************************)
Scales == [ca |-> caScale, ica |-> icaScale, mul |-> mulScale]

\* The setter without its update of the Multiply node.
ImageCrossAttentionSetScaleNoMultiply(sc, k, v) == [sc EXCEPT !.ica[k] = v]

\* ImageCrossAttention.scale setter
ImageCrossAttentionSetScale(sc, k, v) == [sc EXCEPT !.ica[k] = v, !.mul[k] = v]

\* CrossAttentionAdapter.scale setter
CrossAttentionAdapterSetScale(sc, k, v) ==
    ImageCrossAttentionSetScale([sc EXCEPT !.ca[k] = v], k, v)

\* for cross_attn in self.sub_adapters: cross_attn.scale = value
RECURSIVE SetSubScales(_, _, _)
SetSubScales(sc, subs, v) ==
    IF subs = <<>> THEN sc
    ELSE SetSubScales(CrossAttentionAdapterSetScale(sc, Head(subs)[2], v), Tail(subs), v)

\* IPAdapter.scale setter
IPAdapterSetScale(sc, v) == SetSubScales(sc, sub_adapters, v)

\* IPAdapter.set_scale
IPAdapterSetScaleMethod(sc, v) == SetSubScales(sc, sub_adapters, v)

\* IPAdapter.scale getter: self.sub_adapters[0].scale
IPAdapterGetScale(sc) ==
    IF Len(sub_adapters) = 0 THEN [err |-> IndexError, ret |-> 0]
    ELSE [err |-> OK, ret |-> sc.ca[sub_adapters[1][2]]]

(***************************************************************************)
(* Constructors and the keyword arguments of their calls.                  *)
(***************************************************************************)
\* A call with keyword arguments: a keyword that names no parameter of the
\* callee raises TypeError.
Call(params, keywords) == IF keywords \subseteq params THEN OK ELSE TypeError

\* The first error of a sequence of outcomes, OK when there is none.
RECURSIVE FirstError(_)
FirstError(errs) ==
    IF errs = <<>> THEN OK
    ELSE IF Head(errs) # OK THEN Head(errs) ELSE FirstError(Tail(errs))

\* LayerNormTorch.__init__: its parameters, and the names its body reads.
LayerNormTorchParams == {"normalized_shape", "eps", "use_bias", "device", "dtype"}
LayerNormTorchBodyReads == {"normalized_shape", "bias", "eps", "device", "dtype"}
LayerNormTorchInit(keywords) ==
    FirstError(<< Call(LayerNormTorchParams, keywords),
                  IF LayerNormTorchBodyReads \subseteq LayerNormTorchParams
                  THEN OK ELSE NameError >>)

\* LayerNorm.__init__: forwards its own parameters to LayerNormTorch.
LayerNormParams == {"normalized_shape", "eps", "use_bias", "device", "dtype"}
LayerNormSuperKeywords == {"normalized_shape", "eps", "use_bias", "device", "dtype"}
LayerNormInit(keywords) ==
    FirstError(<< Call(LayerNormParams, keywords),
                  LayerNormTorchInit(LayerNormSuperKeywords) >>)

\* fl.LayerNorm(normalized_shape=..., bias=use_bias, device=device, dtype=dtype)
\* as the chains of the adapter write it.
ChainLayerNormKeywords == {"normalized_shape", "bias", "device", "dtype"}

\* ImageProjection.__init__ and PerceiverResampler.__init__: each builds
\* LayerNorm nodes for its chain.
ImageProjectionParams ==
    {"image_embedding_dim", "clip_text_embedding_dim", "num_tokens", "use_bias",
     "device", "dtype"}
ImageProjectionKeywords ==
    {"image_embedding_dim", "clip_text_embedding_dim", "device", "dtype", "use_bias"}
ImageProjectionInit(keywords) ==
    FirstError(<< Call(ImageProjectionParams, keywords),
                  LayerNormInit(ChainLayerNormKeywords) >>)

PerceiverResamplerParams ==
    {"latents_dim", "num_attention_layers", "num_attention_heads", "head_dim",
     "num_tokens", "input_dim", "output_dim", "device", "dtype", "use_bias"}
PerceiverResamplerKeywords ==
    {"latents_dim", "num_attention_layers", "num_attention_heads", "head_dim",
     "num_tokens", "input_dim", "output_dim", "device", "dtype", "use_bias"}
PerceiverResamplerInit(keywords) ==
    FirstError(<< Call(PerceiverResamplerParams, keywords),
                  LayerNormInit(ChainLayerNormKeywords) >>)

(***************************************************************************)
(* The context store.  Keys are "namespace/key"; the U-Net tree and the    *)
(* resampler use disjoint namespaces.                                      *)
(***************************************************************************)
None == 0
ImageEmbedding == "ip_adapter/image_embedding"
PooledText == "ip_adapter/pooled_text_embedding"
PooledTextTimestep == "ip_adapter/pooled_text_timestep_embedding"
TimestepEmbedding == "range_adapter/timestep_embedding"
ResamplerX == "perceiver_resampler/x"
Keys == {ImageEmbedding, PooledText, PooledTextTimestep, TimestepEmbedding, ResamplerX}

\* A learned projection is opaque: its output is a value no raw embedding equals.
Linear(v) == v + MaxVal

\* PerceiverResampler.init_context: {"perceiver_resampler": {"x": None}}
InitContext == [k \in {ResamplerX} |-> None]

\* A step of a pass: [op, node, branch, key].
Ev(op, node, branch, key) == [op |-> op, node |-> node, branch |-> branch, key |-> key]

\* The encoder without its SetContext.
PooledTextEmbeddingTimestepEncoderNoSet ==
    << Ev("use", Proj, "", PooledText),
       Ev("linear", Proj, "", "") >>

\* PooledTextEmbeddingTimestepEncoder:
\* UseContext(pooled_text_embedding), Linear, SetContext(pooled_text_timestep_embedding)
PooledTextEmbeddingTimestepEncoder ==
    << Ev("use", Proj, "", PooledText),
       Ev("linear", Proj, "", ""),
       Ev("set", Proj, "", PooledTextTimestep) >>

\* One Sum(...) of ImageCrossAttention: the chains of key_contexts (or of
\* query_contexts), each a UseContext followed by a Linear: the image
\* embedding, then the timestep embedding (use_timestep_embedding), then the
\* pooled text timestep embedding (use_pooled_text_embedding).
ContextBranch(k, branch, timed, pooled) ==
    << Ev("use", ICA(k), branch, ImageEmbedding), Ev("linear", ICA(k), branch, "") >>
    \o (IF timed
        THEN << Ev("use", ICA(k), branch, TimestepEmbedding),
                Ev("linear", ICA(k), branch, "") >>
        ELSE <<>>)
    \o (IF pooled
        THEN << Ev("use", ICA(k), branch, PooledTextTimestep),
                Ev("linear", ICA(k), branch, "") >>
        ELSE <<>>)

\* ImageCrossAttention whose value branch reads the pooled text embedding.
ImageCrossAttentionValueFromText(k, timed, pooled) ==
    ContextBranch(k, "key", timed, pooled)
    \o << Ev("use", ICA(k), "value", PooledText), Ev("linear", ICA(k), "value", "") >>

\* ImageCrossAttention: Distribute(Identity, Sum(*key_contexts), Sum(*query_contexts))
ImageCrossAttention(k, timed, pooled) ==
    ContextBranch(k, "key", timed, pooled) \o ContextBranch(k, "value", timed, pooled)

\* PerceiverResampler: Linear, SetContext(x), LatentsToken, then per layer a
\* Parallel(UseContext(x), Identity).
TransformerLayers(n) == [j \in 1..n |-> Ev("use", <<"layer", j>>, "", ResamplerX)]
PerceiverResampler(n) ==
    << Ev("linear", <<"resampler", 0>>, "", ""),
       Ev("set", <<"resampler", 0>>, "", ResamplerX) >> \o TransformerLayers(n)

\* The steps of the nodes of a walk, in evaluation order.
NodeSteps(n) ==
    CASE n = Proj -> PooledTextEmbeddingTimestepEncoder
      [] Kind(n) = "ica" -> ImageCrossAttention(n[2], useTimestep, usePooled)
      [] OTHER -> <<>>

RECURSIVE StepsOf(_)
StepsOf(walk) == IF walk = <<>> THEN <<>> ELSE NodeSteps(Head(walk)) \o StepsOf(Tail(walk))

\* A UseContext that forwards whatever the store holds, the null placeholder
\* included, without raising.
RunStepNoMissCheck(r, e) ==
    CASE e.op = "use" ->
            [r EXCEPT !.cur = r.ctx[e.key],
                      !.log = Append(@, [ev |-> e, val |-> r.ctx[e.key],
                                         stored |-> e.key \in r.written])]
      [] e.op = "set" ->
            [r EXCEPT !.ctx[e.key] = r.cur,
                      !.written = @ \cup {e.key},
                      !.log = Append(@, [ev |-> e, val |-> r.cur, stored |-> TRUE])]
      [] e.op = "linear" -> [r EXCEPT !.cur = Linear(@)]

\* A run r is [ctx, written, log, cur, err]; cur is the value flowing down
\* the chain being evaluated.
RunStep(r, e) ==
    CASE e.op = "use" ->
            IF r.ctx[e.key] = None
            THEN [r EXCEPT !.err = ContextMiss,
                           !.log = Append(@, [ev |-> e, val |-> None,
                                              stored |-> e.key \in r.written])]
            ELSE [r EXCEPT !.cur = r.ctx[e.key],
                           !.log = Append(@, [ev |-> e, val |-> r.ctx[e.key],
                                              stored |-> e.key \in r.written])]
      [] e.op = "set" ->
            [r EXCEPT !.ctx[e.key] = r.cur,
                      !.written = @ \cup {e.key},
                      !.log = Append(@, [ev |-> e, val |-> r.cur, stored |-> TRUE])]
      [] e.op = "linear" -> [r EXCEPT !.cur = Linear(@)]

RECURSIVE Run(_, _)
Run(r, evs) ==
    IF evs = <<>> \/ r.err # OK THEN r ELSE Run(RunStep(r, Head(evs)), Tail(evs))

\* Chain._reset_context at the end of a pass that did not raise: the keys
\* init_context declares hold their declared value again.
ResetContext(r, declared) ==
    IF r.err # OK THEN r
    ELSE [r EXCEPT !.ctx = [k \in Keys |-> IF k \in DOMAIN declared THEN declared[k] ELSE @[k]],
                   !.written = @ \ DOMAIN declared]

StartRun(input) == [ctx |-> ctx, written |-> written, log |-> <<>>, cur |-> input, err |-> OK]

\* A forward pass over the live tree of the target.
ForwardTarget(input) ==
    ResetContext(Run(StartRun(input), StepsOf(WalkSeq(children, <<UNet>>))), <<>>)

\* PerceiverResampler(...) is built, then a forward pass of it, or of its
\* transformer layers alone, is run; when the constructor raises there is
\* nothing to run and the store is as it was.
BuildThenRun(input, evs, declared) ==
    LET built == PerceiverResamplerInit(PerceiverResamplerKeywords)
    IN IF built # OK THEN [StartRun(input) EXCEPT !.err = built]
       ELSE ResetContext(Run(StartRun(input), evs), declared)

\* Chain.set_context(namespace, {key: value})
SetContext(c, w, key, v) == [ctx |-> [c EXCEPT ![key] = v], written |-> w \cup {key}]

\* IPAdapter.set_image_embedding
IPAdapterSetImageEmbedding(c, w, v) == SetContext(c, w, ImageEmbedding, v)

\* IPAdapter.set_pooled_text_embedding
IPAdapterSetPooledTextEmbedding(c, w, v) == SetContext(c, w, PooledText, v)

(***************************************************************************)
(* Weight loading.  A key is a sequence of symbols: words, "." and single  *)
(* decimal digit characters, so that a prefix test on symbols is the       *)
(* prefix test on the characters.                                          *)
(***************************************************************************)
ImageProj == <<"image_proj", 0>>    \* the image projection submodule

\* The character of a decimal digit.
DigitChar(d) == <<"0", "1", "2", "3", "4", "5", "6", "7", "8", "9">>[d + 1]

\* The decimal digits of i, most significant first.
RECURSIVE Digits(_)
Digits(i) == IF i < 10 THEN <<DigitChar(i)>> ELSE Digits(i \div 10) \o <<DigitChar(i % 10)>>

\* f"{i}": the index without padding.
FormatPlain(i) == Digits(i)

\* f"{i:03d}": the digits, padded with zeros on the left to width 3.
Format03d(i) ==
    LET d == Digits(i)
    IN [j \in 1..(IF Len(d) < 3 THEN 3 - Len(d) ELSE 0) |-> "0"] \o d

\* str.startswith
StartsWith(k, prefix) ==
    /\ Len(k) >= Len(prefix)
    /\ \A j \in 1..Len(prefix) : k[j] = prefix[j]

\* str.removeprefix, k[len(prefix):]
RemovePrefix(k, prefix) == SubSeq(k, Len(prefix) + 1, Len(k))

ImageProjPrefix == <<"image_proj", ".">>
PooledPrefix == <<"pooled_text_embedding_proj", ".">>
\* prefix = f"ip_adapter.{i:03d}."
SubAdapterPrefix(i) == <<"ip_adapter", ".">> \o Format03d(i) \o <<".">>

\* {k.removeprefix(prefix): v for k, v in weights.items() if k.startswith(prefix)}
FilterByPrefix(ws, prefix) ==
    LET ks == {k \in DOMAIN ws : StartsWith(k, prefix)}
    IN [r \in {RemovePrefix(k, prefix) : k \in ks} |->
            ws[CHOOSE k \in ks : RemovePrefix(k, prefix) = r]]

\* The parameter names of a loaded submodule (one weight each).
ParamNames == {<<"weight">>}

\* torch load_state_dict: raises under strict when a parameter has no entry
\* or an entry names no parameter.
LoadStateDict(sd, isStrict) ==
    IF isStrict /\ (ParamNames \ DOMAIN sd # {} \/ DOMAIN sd \ ParamNames # {})
    THEN WeightMismatch ELSE OK

\* try: image_proj.load_state_dict(..., strict=strict) except Exception: print(e)
LoadImageProj(sd, isStrict) ==
    IF LoadStateDict(sd, isStrict) # OK THEN OK ELSE OK

\* cross_attn.load_state_dict(cross_attention_weights, strict=False)
LoadSubAdapter(sd, isStrict) == LoadStateDict(sd, FALSE)

\* pooled_text_embedding_proj.load_state_dict(..., strict=strict)
LoadPooled(sd, isStrict) == LoadStateDict(sd, isStrict)

\* The loaded submodules of an adapter, in loading order.
LoadedSubmodules(subs, pooled) ==
    <<ImageProj>> \o subs \o (IF pooled THEN <<Proj>> ELSE <<>>)

PrefixOf(m) ==
    CASE m = ImageProj -> ImageProjPrefix
      [] m = Proj -> PooledPrefix
      [] OTHER -> SubAdapterPrefix(m[2])

LoadOf(m, sd, isStrict) ==
    CASE m = ImageProj -> LoadImageProj(sd, isStrict)
      [] m = Proj -> LoadPooled(sd, isStrict)
      [] OTHER -> LoadSubAdapter(sd, isStrict)

\* if weights is not None: ... ; the first error raised ends the construction.
RECURSIVE LoadAll(_, _, _, _)
LoadAll(r, mods, ws, isStrict) ==
    IF mods = <<>> \/ r.err # OK THEN r
    ELSE LET m == Head(mods)
             sd == FilterByPrefix(ws, PrefixOf(m))
         IN LoadAll([delivered |-> [x \in DOMAIN r.delivered \cup {m} |->
                                       IF x = m THEN sd ELSE r.delivered[x]],
                     err |-> LoadOf(m, sd, isStrict)],
                    Tail(mods), ws, isStrict)

LoadWeights(given, ws, isStrict) ==
    IF ~given THEN [delivered |-> <<>>, err |-> OK]
    ELSE LoadAll([delivered |-> <<>>, err |-> OK],
                 LoadedSubmodules(sub_adapters, usePooled), ws, isStrict)

\* The keys a weight map is drawn from: for each submodule its parameter and
\* a key naming no parameter, keys of sub-adapter indices with other paddings
\* and of an index no sub-adapter has, and a key of no submodule.
KeyUniverse ==
    {ImageProjPrefix \o <<"weight">>, ImageProjPrefix \o <<"extra">>,
     PooledPrefix \o <<"weight">>, PooledPrefix \o <<"extra">>,
     <<"ip_adapter", ".", "0", "0", "0", ".", "extra">>,
     <<"ip_adapter", ".", "1", ".", "weight">>,
     <<"text_proj", ".", "weight">>}
    \cup {<<"ip_adapter", ".">> \o Format03d(i) \o <<".", "weight">> : i \in 0..MaxBlocks}

\* A tensor is identified by the key it came under.
TensorOf(k) == k

NoWeights ==
    /\ hasWeights = FALSE
    /\ weights = <<>>
    /\ strict = TRUE
    /\ delivered = <<>>

(***************************************************************************)
(* The DDIM scheduler.                                                     *)
(***************************************************************************)
\* Tensor.flip(0)
Flip(s) == [i \in 1..Len(s) |-> s[Len(s) + 1 - i]]

\* _generate_timesteps without the flip.
GenerateTimestepsAscending(n, t) ==
    LET step_ratio == t \div n
    IN [i \in 1..n |-> (i - 1) * step_ratio + 1]

\* DDIM._generate_timesteps
GenerateTimesteps(n, t) ==
    LET step_ratio == t \div n
    IN Flip([i \in 1..n |-> (i - 1) * step_ratio + 1])

\* cumulative_scale_factors[previous_timestep] if previous_timestep > 0
\* else cumulative_scale_factors[0]
PreviousIndex(previous_timestep) ==
    IF previous_timestep > 0 THEN previous_timestep ELSE 0

\* DDIM.__call__(x, noise, step): the timesteps it reads, then the indices at
\* which it reads cumulative_scale_factors (a table of num_train_timesteps
\* entries), the current one first and the previous one after it.  A read
\* outside the table raises IndexError and no read follows it: table_reads
\* holds the indices read, the one that raised included.
DDIMCall(step) ==
    LET last == ~(step < num_inference_steps - 1)
        timestep == timesteps[step + 1]
        previous_timestep == IF last THEN 0 ELSE timesteps[step + 2]
        prev == PreviousIndex(previous_timestep)
    IN [timestep |-> timestep,
        previous_timestep |-> previous_timestep,
        sentinel |-> last,
        readNext |-> ~last,
        table_reads |-> IF timestep >= num_train_timesteps
                        THEN << timestep >> ELSE << timestep, prev >>,
        err |-> IF timestep >= num_train_timesteps \/ prev >= num_train_timesteps
                THEN IndexError ELSE OK]

NoStep == [timestep |-> 0, previous_timestep |-> 0, sentinel |-> FALSE,
           readNext |-> FALSE, table_reads |-> <<>>, err |-> OK]

NoScheduler ==
    /\ num_inference_steps = 1
    /\ num_train_timesteps = 1
    /\ timesteps = <<1>>
    /\ stepResult = NoStep

(***************************************************************************)
(* compute_image_embedding.  An image is a number, 0 the all-zero image;   *)
(* the encoder and the projection are opaque and injective.                *)
(***************************************************************************)
\* image_encoder(image)
ImageEncoder(img) == 2 * img + 2

\* image_proj(embedding): NumTokens tokens
ImageProjection(e) == [t \in 1..NumTokens |-> 10 * e + t]

\* IPAdapter._compute_image_embedding: (negative, conditional)
ComputeImageEmbeddingPair(prompt, div, fine) ==
    LET image_embedding == [i \in 1..Len(prompt) |-> ImageEncoder(prompt[i]) \div div]
        conditional == [i \in 1..Len(prompt) |-> ImageProjection(image_embedding[i])]
        negative ==
            IF ~fine
            THEN [i \in 1..Len(prompt) |-> ImageProjection(0)]
            ELSE [i \in 1..Len(prompt) |-> ImageProjection(ImageEncoder(0) \div div)]
    IN [negative |-> negative, conditional |-> conditional]

\* The weighting applied only when every weight differs from 1.0.
ApplyWeightsIfAll(conditional, w) ==
    IF w.given /\ (\A i \in 1..Len(w.list) : w.list[i] # 1)
    THEN [i \in 1..Len(conditional) |->
            [t \in 1..Len(conditional[i]) |-> conditional[i][t] * w.list[i]]]
    ELSE conditional

\* if any(weight != 1.0 for weight in weights): conditional_embedding *= weights
ApplyWeights(conditional, w) ==
    IF w.given /\ (\E i \in 1..Len(w.list) : w.list[i] # 1)
    THEN [i \in 1..Len(conditional) |->
            [t \in 1..Len(conditional[i]) |-> conditional[i][t] * w.list[i]]]
    ELSE conditional

\* cat(embedding.chunk(batch_size), dim=1): one row holding every image's tokens
RECURSIVE CatChunks(_)
CatChunks(rows) == IF rows = <<>> THEN <<>> ELSE Head(rows) \o CatChunks(Tail(rows))

\* IPAdapter.compute_image_embedding
ComputeImageEmbedding(prompt, w, div, concat, fine) ==
    LET pair == ComputeImageEmbeddingPair(prompt, div, fine)
        batch_size == Len(prompt)
        conditional == ApplyWeights(pair.conditional, w)
        grouped == batch_size > 1 /\ concat
        neg == IF grouped THEN <<CatChunks(pair.negative)>> ELSE pair.negative
        cond == IF grouped THEN <<CatChunks(conditional)>> ELSE conditional
    IN IF w.given /\ Len(w.list) # batch_size
       THEN [err |-> AssertionError, out |-> <<>>]
       ELSE [err |-> OK, out |-> neg \o cond]

RECURSIVE SeqsUpTo(_, _)
SeqsUpTo(S, n) ==
    IF n = 0 THEN {<<>>}
    ELSE LET shorter == SeqsUpTo(S, n - 1)
         IN shorter \cup {Append(q, x) : q \in {r \in shorter : Len(r) = n - 1}, x \in S}

NoEmbedding ==
    /\ image_prompt = <<1>>
    /\ embWeights = [given |-> FALSE, list |-> <<>>]
    /\ div_factor = 1
    /\ concat_batches = TRUE
    /\ fine_grained = FALSE
    /\ embResult = <<>>

(***************************************************************************)
(* SD1IPAdapter and get_sd1_image_proj.                                    *)
(***************************************************************************)
\* proj_device = target.device if device is None else device
ProjDevice(a) == IF a.device = None THEN a.target_device ELSE a.device
\* proj_dtype = target.dtype if device is None else dtype
ProjDType(a) == IF a.device = None THEN a.target_dtype ELSE a.dtype

\* get_sd1_image_proj: the device and dtype the projection is built with,
\* its kind, and the error its constructor raised.
GetSD1ImageProj(a) ==
    [device |-> ProjDevice(a),
     dtype |-> ProjDType(a),
     kind |-> IF ~a.fine_grained THEN "projection" ELSE "resampler",
     err |-> IF ~a.fine_grained
             THEN ImageProjectionInit(ImageProjectionKeywords)
             ELSE PerceiverResamplerInit(PerceiverResamplerKeywords)]

\* IPAdapter.__init__: its parameters; SD1IPAdapter.__init__: the keywords of
\* its super().__init__ call.
IPAdapterInitParams ==
    {"target", "image_encoder", "image_proj", "scale", "fine_grained", "weights",
     "strict", "use_timestep_embedding", "use_pooled_text_embedding", "use_bias",
     "sequence_length"}
SD1IPAdapterSuperKeywords ==
    {"target", "image_encoder", "image_proj", "scale", "fine_grained", "weights",
     "strict", "use_timestep_embedding", "use_pooled_text_embedding", "use_bias",
     "sequence_length", "layernorm_dino", "weighted_sum"}

\* SD1IPAdapter.__init__: the default projection when none is given (built
\* without a device or dtype argument), the isinstance assertion on a given
\* one, then IPAdapter.__init__.
SD1IPAdapterInit(a) ==
    LET proj == IF a.image_proj = "none"
                THEN GetSD1ImageProj([a EXCEPT !.device = None, !.dtype = None])
                ELSE [device |-> a.target_device, dtype |-> a.target_dtype,
                      kind |-> a.image_proj, err |-> OK]
        asserted == IF a.image_proj # "none" /\ a.fine_grained /\ proj.kind # "resampler"
                    THEN AssertionError ELSE OK
    IN [proj EXCEPT !.err = FirstError(<< proj.err, asserted,
                                          Call(IPAdapterInitParams, SD1IPAdapterSuperKeywords) >>)]

NoSD1 ==
    /\ sd1Args = <<>>
    /\ sd1Result = <<>>

(***************************************************************************)
(* The state after construction, and the calls.                            *)
(***************************************************************************)
InitAdapter(blocks, hosts, timed, scales) ==
    /\ nBlocks \in blocks
    /\ usePooled \in BOOLEAN
    /\ useTimestep \in timed
    /\ hasParent \in hosts
    /\ sub_adapters = SubAdapters(nBlocks)
    /\ target = [a \in Adapters(nBlocks) |-> Target(nBlocks, a)]
    /\ parentOf = [a \in Adapters(nBlocks) |-> CapturedParent(nBlocks, hasParent, a)]
    /\ children = ConstructedTree(nBlocks, hasParent)
    /\ injected = [a \in Adapters(nBlocks) |-> FALSE]
    /\ opLog = <<>>
    /\ \E s \in scales :
          /\ caScale = [k \in SubIdx(nBlocks) |-> s]
          /\ icaScale = [k \in SubIdx(nBlocks) |-> s]
          /\ mulScale = [k \in SubIdx(nBlocks) |-> s]

InitContextStore(layers) ==
    /\ numLayers \in layers
    /\ ctx = [k \in Keys |-> IF k \in DOMAIN InitContext THEN InitContext[k] ELSE None]
    /\ written = {}
    /\ passLog = <<>>
    /\ lastImage = None
    /\ passesSinceSet = 0

InitCall ==
    /\ lastOp = "init"
    /\ lastArg = 0
    /\ lastErr = OK
    /\ lastRet = 0
    /\ everFailed = FALSE

Called(op, arg, err, ret) ==
    /\ lastOp' = op
    /\ lastArg' = arg
    /\ lastErr' = err
    /\ lastRet' = ret
    /\ everFailed' = (everFailed \/ err # OK)

TreeCall(op, arg, w) ==
    /\ children' = w.children
    /\ injected' = w.injected
    /\ opLog' = w.log
    /\ passLog' = <<>>
    /\ Called(op, arg, w.err, 0)
    /\ UNCHANGED <<cfgVars, scaleVars, numLayers, ctx, written, lastImage, passesSinceSet,
                   pureVars>>

Inject ==
    /\ Len(children[UNet]) < MaxChildren
    /\ TreeCall("inject", 0, IPAdapterInject(World))

Eject == TreeCall("eject", 0, IPAdapterEject(World))

SubInject(k) == TreeCall("sub_inject", k, AdapterInject(World, XA(k)))

SubEject(k) == TreeCall("sub_eject", k, AdapterEject(World, XA(k)))

ScaleCall(op, arg, sc) ==
    /\ caScale' = sc.ca
    /\ icaScale' = sc.ica
    /\ mulScale' = sc.mul
    /\ Called(op, arg, OK, 0)
    /\ UNCHANGED <<cfgVars, treeVars, ctxVars, pureVars>>

SetScale(v) == ScaleCall("scale=", v, IPAdapterSetScale(Scales, v))

SetScaleMethod(v) == ScaleCall("set_scale", v, IPAdapterSetScaleMethod(Scales, v))

SubSetScale(k, v) ==
    ScaleCall("sub_scale=", <<k, v>>, CrossAttentionAdapterSetScale(Scales, k, v))

\* sub_adapter.image_cross_attention.scale = v
ImageCrossAttentionScale(k, v) ==
    ScaleCall("ica_scale=", <<k, v>>, ImageCrossAttentionSetScale(Scales, k, v))

GetScale ==
    LET r == IPAdapterGetScale(Scales)
    IN /\ Called("scale", 0, r.err, r.ret)
       /\ UNCHANGED <<cfgVars, treeVars, scaleVars, ctxVars, pureVars>>

PassCall(op, arg, r) ==
    /\ ctx' = r.ctx
    /\ written' = r.written
    /\ passLog' = r.log
    /\ Called(op, arg, r.err, 0)
    /\ UNCHANGED <<cfgVars, treeVars, scaleVars, numLayers, lastImage, pureVars>>

Forward ==
    \E v \in 1..MaxVal :
        /\ PassCall("forward", 0, ForwardTarget(v))
        /\ passesSinceSet' = IF passesSinceSet < MaxPasses THEN passesSinceSet + 1
                              ELSE passesSinceSet

ForwardResampler ==
    \E v \in 1..MaxVal :
        /\ PassCall("resampler", v, BuildThenRun(v, PerceiverResampler(numLayers), InitContext))
        /\ UNCHANGED passesSinceSet

ForwardLayers ==
    \E v \in 1..MaxVal :
        /\ PassCall("layers", v, BuildThenRun(v, TransformerLayers(numLayers), <<>>))
        /\ UNCHANGED passesSinceSet

SetImageEmbedding(v) ==
    LET c == IPAdapterSetImageEmbedding(ctx, written, v)
    IN /\ ctx' = c.ctx
       /\ written' = c.written
       /\ lastImage' = v
       /\ passesSinceSet' = 0
       /\ passLog' = <<>>
       /\ Called("set_image_embedding", v, OK, 0)
       /\ UNCHANGED <<cfgVars, treeVars, scaleVars, numLayers, pureVars>>

SetPooledTextEmbedding(v) ==
    LET c == IPAdapterSetPooledTextEmbedding(ctx, written, v)
    IN /\ ctx' = c.ctx
       /\ written' = c.written
       /\ passLog' = <<>>
       /\ Called("set_pooled_text_embedding", v, OK, 0)
       /\ UNCHANGED <<cfgVars, treeVars, scaleVars, numLayers, lastImage,
                      passesSinceSet, pureVars>>

\* The timestep embedding of the target's range adapter, set by its owner.
SetTimestepEmbedding(v) ==
    LET c == SetContext(ctx, written, TimestepEmbedding, v)
    IN /\ ctx' = c.ctx
       /\ written' = c.written
       /\ passLog' = <<>>
       /\ Called("set_timestep_embedding", v, OK, 0)
       /\ UNCHANGED <<cfgVars, treeVars, scaleVars, numLayers, lastImage,
                      passesSinceSet, pureVars>>

vars == <<cfgVars, treeVars, scaleVars, ctxVars, pureVars, callVars>>

\* The default scale of the constructors (scale: float = 1.0).
DefaultScale == 1

\* The life cycle: the composite and each sub-adapter, injected and ejected
\* in any order, valid or not.
Init == InitAdapter(1..MaxBlocks, BOOLEAN, {FALSE}, {DefaultScale}) /\ InitContextStore({1}) /\ NoWeights /\ NoScheduler /\ NoEmbedding /\ NoSD1 /\ InitCall

Next ==
    \/ Inject
    \/ Eject
    \/ \E k \in Subs : SubInject(k)
    \/ \E k \in Subs : SubEject(k)

Spec == Init /\ [][Next]_vars

\* The scale, set and read in any injection state.
InitScale == InitAdapter(1..MaxBlocks, {FALSE}, {FALSE}, 0..MaxScale) /\ InitContextStore({1}) /\ NoWeights /\ NoScheduler /\ NoEmbedding /\ NoSD1 /\ InitCall

NextScale ==
    \/ Inject
    \/ Eject
    \/ \E v \in 0..MaxScale : SetScale(v)
    \/ \E v \in 0..MaxScale : SetScaleMethod(v)
    \/ \E k \in Subs, v \in 0..MaxScale : SubSetScale(k, v)
    \/ \E k \in Subs, v \in 0..MaxScale : ImageCrossAttentionScale(k, v)
    \/ GetScale

SpecScale == InitScale /\ [][NextScale]_vars

\* The construction with a weight map.
InitWeights ==
    /\ InitAdapter(1..MaxBlocks, {FALSE}, {FALSE}, {DefaultScale})
    /\ InitContextStore({1})
    /\ NoScheduler /\ NoEmbedding /\ NoSD1
    /\ InitCall
    /\ hasWeights \in BOOLEAN
    /\ strict \in BOOLEAN
    /\ \E ks \in SUBSET KeyUniverse :
          /\ hasWeights \/ ks = {}
          /\ weights = [k \in ks |-> TensorOf(k)]
    /\ delivered = <<>>

Construct ==
    /\ lastOp = "init"
    /\ LET r == LoadWeights(hasWeights, weights, strict)
       IN /\ delivered' = r.delivered
          /\ Called("construct", 0, r.err, 0)
    /\ UNCHANGED <<cfgVars, treeVars, scaleVars, ctxVars, hasWeights, weights, strict, ddimVars, embVars, sd1Vars>>

NextWeights == Construct

SpecWeights == InitWeights /\ [][NextWeights]_vars

\* The scheduler, built and stepped at any index.
InitDDIM ==
    /\ InitAdapter({1}, {FALSE}, {FALSE}, {DefaultScale})
    /\ InitContextStore({1})
    /\ NoWeights /\ NoEmbedding /\ NoSD1
    /\ InitCall
    /\ \E nt \in ((1..MaxSteps) \X (1..MaxTrain)) \cup {<<50, 1000>>} :
          /\ num_inference_steps = nt[1]
          /\ num_train_timesteps = nt[2]
          /\ timesteps = GenerateTimesteps(nt[1], nt[2])
    /\ stepResult = NoStep

Step(s) ==
    LET r == DDIMCall(s)
    IN /\ stepResult' = r
       /\ Called("step", s, r.err, 0)
       /\ UNCHANGED <<cfgVars, treeVars, scaleVars, ctxVars, weightVars, embVars, sd1Vars,
                      num_inference_steps, num_train_timesteps, timesteps>>

NextDDIM == \E s \in 0..(num_inference_steps - 1) : Step(s)

SpecDDIM == InitDDIM /\ [][NextDDIM]_vars

\* compute_image_embedding on every batch and weights list.
InitEmbed ==
    /\ InitAdapter({1}, {FALSE}, {FALSE}, {DefaultScale})
    /\ InitContextStore({1})
    /\ NoWeights /\ NoScheduler /\ NoSD1
    /\ InitCall
    /\ image_prompt \in SeqsUpTo(1..MaxVal, MaxBatch) \ {<<>>}
    /\ embWeights \in {[given |-> FALSE, list |-> <<>>]}
            \cup {[given |-> TRUE, list |-> l] : l \in SeqsUpTo(0..MaxWeight, MaxBatch + 1)}
    /\ div_factor \in {1, 2}
    /\ concat_batches \in BOOLEAN
    /\ fine_grained \in BOOLEAN
    /\ embResult = <<>>

Compute ==
    /\ lastOp = "init"
    /\ LET r == ComputeImageEmbedding(image_prompt, embWeights, div_factor,
                                      concat_batches, fine_grained)
       IN /\ embResult' = r.out
          /\ Called("compute", 0, r.err, 0)
    /\ UNCHANGED <<cfgVars, treeVars, scaleVars, ctxVars, weightVars, ddimVars, sd1Vars,
                   image_prompt, embWeights, div_factor, concat_batches, fine_grained>>

NextEmbed == Compute

SpecEmbed == InitEmbed /\ [][NextEmbed]_vars

\* The adapter in use: inject, set the embeddings, run passes, eject.
NextCtx ==
    \/ Inject
    \/ Eject
    \/ \E v \in 1..MaxVal : SetImageEmbedding(v)
    \/ \E v \in 1..MaxVal : SetPooledTextEmbedding(v)
    \/ \E v \in {1} : SetTimestepEmbedding(v)
    \/ Forward
    \/ ForwardResampler
    \/ ForwardLayers

InitCtx == InitAdapter(1..MaxBlocks, {FALSE}, BOOLEAN, {DefaultScale}) /\ InitContextStore({1}) /\ NoWeights /\ NoScheduler /\ NoEmbedding /\ NoSD1 /\ InitCall

SpecCtx == InitCtx /\ [][NextCtx]_vars

\* The constructors: a CrossAttentionAdapter built alone on a cross attention
\* of the target, or the composite built on the target.
InitBuild ==
    /\ nBlocks \in 1..MaxBlocks
    /\ usePooled \in BOOLEAN
    /\ useTimestep \in BOOLEAN
    /\ hasParent \in BOOLEAN
    /\ sub_adapters = <<>>
    /\ target = <<>>
    /\ parentOf = <<>>
    /\ children = TargetTree(nBlocks, hasParent)
    /\ injected = <<>>
    /\ opLog = <<>>
    /\ caScale = <<>> /\ icaScale = <<>> /\ mulScale = <<>>
    /\ InitContextStore({1})
    /\ NoWeights /\ NoScheduler /\ NoEmbedding /\ NoSD1 /\ InitCall

BuildCall(op, arg) ==
    /\ opLog' = <<>>
    /\ Called(op, arg, OK, 0)
    /\ UNCHANGED <<nBlocks, usePooled, useTimestep, hasParent, ctxVars, pureVars>>

NewCrossAttentionAdapter(i, v) ==
    LET k == i - 1
    IN /\ XA(k) \notin DOMAIN target
       /\ IP \notin DOMAIN target
       /\ children' = CrossAttentionAdapterInit(children, CA(i), k)
       /\ target' = (XA(k) :> CA(i)) @@ target
       /\ parentOf' = (XA(k) :> ParentIn(children, CA(i))) @@ parentOf
       /\ injected' = (XA(k) :> FALSE) @@ injected
       /\ caScale' = (k :> v) @@ caScale
       /\ icaScale' = (k :> v) @@ icaScale
       /\ mulScale' = (k :> v) @@ mulScale
       /\ UNCHANGED sub_adapters
       /\ BuildCall("new_cross_attention_adapter", i)

NewIPAdapter(v) ==
    LET r == IPAdapterInit(children)
        built == {IP} \cup {r.subs[j] : j \in 1..Len(r.subs)}
    IN /\ DOMAIN target = {}
       /\ children' = r.tree
       /\ sub_adapters' = r.subs
       /\ target' = [a \in built |-> IF a = IP THEN UNet ELSE r.targets[a[2] + 1]]
       /\ parentOf' = [a \in built |->
                          ParentIn(children, IF a = IP THEN UNet ELSE r.targets[a[2] + 1])]
       /\ injected' = [a \in built |-> FALSE]
       /\ caScale' = [k \in 0..(Len(r.subs) - 1) |-> v]
       /\ icaScale' = [k \in 0..(Len(r.subs) - 1) |-> v]
       /\ mulScale' = [k \in 0..(Len(r.subs) - 1) |-> v]
       /\ BuildCall("new_ip_adapter", v)

NextBuild ==
    \/ \E i \in 1..nBlocks, v \in 0..MaxScale : NewCrossAttentionAdapter(i, v)
    \/ \E v \in 0..MaxScale : NewIPAdapter(v)

SpecBuild == InitBuild /\ [][NextBuild]_vars

\* The target shared with a caller that inserts modules of its own at the
\* front of the target (Chain.insert(0, module)) between the adapter's calls.
TargetInsert ==
    /\ Len(children[UNet]) < MaxChildren
    /\ LET free == {j \in 1..MaxChildren : ~Contains(children[UNet], Extra(j))}
           j == CHOOSE x \in free : \A y \in free : x <= y
       IN /\ children' = [children EXCEPT ![UNet] = ChainInsert0(@, Extra(j))]
          /\ Called("target_insert", j, OK, 0)
    /\ UNCHANGED <<injected, opLog, cfgVars, scaleVars, ctxVars, pureVars>>

NextShared ==
    \/ Inject
    \/ Eject
    \/ TargetInsert

SpecShared == Init /\ [][NextShared]_vars

\* SD1IPAdapter(target, ...) and get_sd1_image_proj(..., device, dtype).
InitSD1 ==
    /\ InitAdapter({1}, {FALSE}, {FALSE}, {DefaultScale})
    /\ InitContextStore({1})
    /\ NoWeights /\ NoScheduler /\ NoEmbedding
    /\ InitCall
    /\ sd1Args \in [target_device : 1..NumDevices, target_dtype : 1..NumDTypes,
                    device : {None} \cup 1..NumDevices, dtype : {None} \cup 1..NumDTypes,
                    fine_grained : BOOLEAN, use_bias : BOOLEAN,
                    image_proj : {"none", "projection", "resampler"}]
    /\ sd1Result = <<>>

SD1Call(op, r) ==
    /\ lastOp = "init"
    /\ sd1Result' = r
    /\ Called(op, 0, r.err, 0)
    /\ UNCHANGED <<cfgVars, treeVars, scaleVars, ctxVars, weightVars, ddimVars, embVars, sd1Args>>

ConstructSD1 == SD1Call("sd1_init", SD1IPAdapterInit(sd1Args))

GetImageProj == SD1Call("get_sd1_image_proj", GetSD1ImageProj(sd1Args))

NextSD1 ==
    \/ ConstructSD1
    \/ GetImageProj

SpecSD1 == InitSD1 /\ [][NextSD1]_vars

(***************************************************************************)
(* Properties of the life cycle (Spec).                                    *)
(***************************************************************************)
AllNotInjected == \A a \in DOMAIN injected : ~injected[a]

\* C1: after any sequence of valid inject / eject calls (of the composite or
\* of single sub-adapters) that ends with every adapter NOT_INJECTED, every
\* chain of the original tree (the target's parent, the target, the blocks,
\* the attention layers) holds exactly its original children, by identity.
InjectEjectRestoresTree ==
    (~everFailed /\ AllNotInjected) =>
        \A c \in DOMAIN TargetTree(nBlocks, hasParent) :
            children[c] = TargetTree(nBlocks, hasParent)[c]

\* A pooled-text composite inside a host chain has been injected and ejected.
InjectEjectRestoresTreeWitness ==
    /\ ~everFailed /\ AllNotInjected
    /\ lastOp = "eject" /\ lastErr = OK
    /\ usePooled /\ hasParent /\ Len(sub_adapters) >= 2

\* C2: inject while INJECTED and eject while NOT_INJECTED raise
\* InvalidAdapterState, for the composite and for every sub-adapter.
WrongStateCallRaisesInvalidAdapterState ==
    [][ /\ (Inject /\ injected[IP]) => lastErr' = InvalidAdapterState
        /\ (Eject /\ ~injected[IP]) => lastErr' = InvalidAdapterState
        /\ \A k \in Subs :
              /\ (SubInject(k) /\ injected[XA(k)]) => lastErr' = InvalidAdapterState
              /\ (SubEject(k) /\ ~injected[XA(k)]) => lastErr' = InvalidAdapterState
      ]_vars

(***************************************************************************)
(* Properties of the scale (SpecScale).                                    *)
(***************************************************************************)
\* C3: in any injection state, setting the composite's scale to v (by the
\* setter or by set_scale) makes the CrossAttentionAdapter scale, the
\* ImageCrossAttention scale and the Multiply scale of every sub-adapter v,
\* the composite's scale then reads v, and the tree and the injection states
\* are unchanged.
SetScaleReachesEveryMultiplier ==
    [][ \A v \in 0..MaxScale :
            (lastOp' \in {"scale=", "set_scale"} /\ (SetScale(v) \/ SetScaleMethod(v))) =>
                /\ \A k \in Subs : caScale'[k] = v /\ icaScale'[k] = v /\ mulScale'[k] = v
                /\ IPAdapterGetScale([ca |-> caScale', ica |-> icaScale', mul |-> mulScale'])
                       = [err |-> OK, ret |-> v]
                /\ UNCHANGED treeVars
      ]_vars

\* The scale of an injected composite with two sub-adapters has been set to
\* the largest value.
SetScaleReachesEveryMultiplierWitness ==
    /\ lastOp \in {"scale=", "set_scale"}
    /\ injected[IP] /\ Len(sub_adapters) >= 2
    /\ lastArg = MaxScale /\ \A k \in Subs : mulScale[k] = MaxScale

(***************************************************************************)
(* Properties of the weight loading (SpecWeights).                         *)
(***************************************************************************)
Loaded == {LoadedSubmodules(sub_adapters, usePooled)[j] :
              j \in 1..Len(LoadedSubmodules(sub_adapters, usePooled))}

\* The prefix the weight source convention gives a submodule.
ConventionPrefix(m) ==
    CASE m = ImageProj -> <<"image_proj", ".">>
      [] m = Proj -> <<"pooled_text_embedding_proj", ".">>
      [] OTHER -> <<"ip_adapter", ".", DigitChar(m[2] \div 100),
                    DigitChar((m[2] \div 10) % 10), DigitChar(m[2] % 10), ".">>

KeysUnder(m) == {k \in DOMAIN weights : StartsWith(k, ConventionPrefix(m))}
Suffix(m, k) == SubSeq(k, Len(ConventionPrefix(m)) + 1, Len(k))

\* Some loaded submodule has a parameter without a key, or a key under its
\* prefix that names no parameter.
Mismatch(m) ==
    \/ \E q \in ParamNames : \A k \in KeysUnder(m) : Suffix(m, k) # q
    \/ \E k \in KeysUnder(m) : Suffix(m, k) \notin ParamNames

\* C4: with a weight map and strict, a mismatch in any loaded submodule makes
\* the construction fail with WeightMismatch; without strict it completes.
StrictLoadFailsOnMismatch ==
    (lastOp = "construct" /\ hasWeights) =>
        /\ (strict /\ \E m \in Loaded : Mismatch(m)) => lastErr = WeightMismatch
        /\ ~strict => lastErr = OK

\* C5: every loaded submodule is handed exactly the entries of the weight map
\* under its own prefix (image_proj., ip_adapter.NNN. with NNN the sub-adapter
\* index in three digits, pooled_text_embedding_proj.), the prefix stripped
\* and the value unchanged, and no key goes to two submodules.
PrefixedDelivery ==
    (lastOp = "construct" /\ hasWeights) =>
        /\ \A m \in Loaded :
              /\ m \in DOMAIN delivered
              /\ DOMAIN delivered[m] = {Suffix(m, k) : k \in KeysUnder(m)}
              /\ \A k \in KeysUnder(m) : delivered[m][Suffix(m, k)] = TensorOf(k)
        /\ \A k \in DOMAIN weights :
              Cardinality({m \in DOMAIN delivered :
                              /\ Len(k) > Len(PrefixOf(m))
                              /\ StartsWith(k, PrefixOf(m))
                              /\ RemovePrefix(k, PrefixOf(m)) \in DOMAIN delivered[m]}) <= 1

\* A pooled-text adapter with two sub-adapters was built from a map holding
\* keys of every submodule, an unpadded index and a foreign key.
PrefixedDeliveryWitness ==
    /\ lastOp = "construct" /\ hasWeights /\ usePooled /\ Len(sub_adapters) >= 2
    /\ <<"ip_adapter", ".", "1", ".", "weight">> \in DOMAIN weights
    /\ <<"text_proj", ".", "weight">> \in DOMAIN weights
    /\ \A m \in Loaded : <<"weight">> \in DOMAIN delivered[m]

(***************************************************************************)
(* Properties of the DDIM scheduler (SpecDDIM).                            *)
(***************************************************************************)
StrictlyDecreasing(s) == \A i \in 1..(Len(s) - 1) : s[i + 1] < s[i]

TimestepsShape ==
    /\ Len(timesteps) = num_inference_steps
    /\ \A i \in 0..(num_inference_steps - 1) :
          timesteps[i + 1] =
              (num_inference_steps - 1 - i) * (num_train_timesteps \div num_inference_steps) + 1
    /\ timesteps[num_inference_steps] = 1
    /\ (num_inference_steps = 50 /\ num_train_timesteps = 1000) =>
          timesteps = [i \in 1..50 |-> 981 - 20 * (i - 1)]

\* C6 as claimed: for every N >= 1 and T >= 1 the timesteps have length N,
\* are strictly decreasing, are (N-1-i) * (T // N) + 1 at index i and end in 1.
TimestepsStrictlyDecreasingAlways ==
    TimestepsShape /\ StrictlyDecreasing(timesteps)

\* C6 amended: length, values and last element as claimed for every N and T;
\* strictly decreasing for every N <= T.
TimestepsStrictlyDecreasing ==
    /\ TimestepsShape
    /\ num_inference_steps <= num_train_timesteps => StrictlyDecreasing(timesteps)

\* The scheduler of 50 steps over 1000 training timesteps has been built.
TimestepsStrictlyDecreasingWitness ==
    /\ num_inference_steps = 50 /\ num_train_timesteps = 1000
    /\ timesteps[1] = 981 /\ timesteps[2] = 961 /\ timesteps[50] = 1

\* C7: a step at index s obtains the current scale factor at timesteps[s];
\* before the last index it obtains the previous one at timesteps[s+1], which
\* is smaller than timesteps[s]; at the last index the previous timestep is
\* the sentinel 0, the previous scale factor is obtained at 0 and
\* timesteps[s+1] is not read; the sentinel branch is taken exactly at the
\* last index.
StepUsesSmallerNextTimestep ==
    lastOp = "step" =>
        LET s == lastArg
            n == num_inference_steps
        IN /\ lastErr = OK
           /\ Len(stepResult.table_reads) = 2
           /\ stepResult.table_reads[1] = timesteps[s + 1]
           /\ s < n - 1 =>
                /\ stepResult.table_reads[2] = timesteps[s + 2]
                /\ timesteps[s + 2] < timesteps[s + 1]
           /\ s = n - 1 =>
                /\ stepResult.previous_timestep = 0
                /\ stepResult.table_reads[2] = 0
                /\ ~stepResult.readNext
           /\ stepResult.sentinel <=> s = n - 1

(***************************************************************************)
(* Properties of the context store (SpecCtx).                              *)
(***************************************************************************)
\* The writes of the pass to the key read at position j, before j.
WritesBefore(j) ==
    {i \in 1..(j - 1) : passLog[i].ev.op = "set" /\ passLog[i].ev.key = passLog[j].ev.key}
LastOf(S) == CHOOSE i \in S : \A x \in S : x <= i
\* The reads of the pass that has just ended.
Reads ==
    IF lastOp \in {"forward", "resampler", "layers"}
    THEN {j \in 1..Len(passLog) : passLog[j].ev.op = "use"}
    ELSE {}
IsMiss(j) == passLog[j].val = None /\ lastErr = ContextMiss /\ j = Len(passLog)

ReadAfterWrite(j) ==
    WritesBefore(j) # {} =>
        passLog[j].val = passLog[LastOf(WritesBefore(j))].val /\ ~IsMiss(j)

\* C8 as claimed: in a pass a read after a write of the key forwards the
\* written value, and a read with no write of the key earlier in that pass
\* fails with ContextMiss.
ReadWithoutWriteInPassFails ==
    \A j \in Reads :
        /\ ReadAfterWrite(j)
        /\ WritesBefore(j) = {} => IsMiss(j)

\* C8 amended: in a pass a read after a write of the key forwards the written
\* value; a read of a key that holds no written value (nothing written in the
\* pass, nothing retained from a set_context before it) fails with
\* ContextMiss and forwards nothing.
ReadOfUnwrittenKeyFails ==
    \A j \in Reads :
        /\ ReadAfterWrite(j)
        /\ (WritesBefore(j) = {} /\ ~passLog[j].stored) => IsMiss(j)

\* A pass over an injected pooled-text adapter in which the image branches
\* read what the projector wrote in that pass.
ReadOfUnwrittenKeyFailsWitness ==
    /\ lastOp = "forward" /\ lastErr = OK /\ usePooled /\ injected[IP]
    /\ \E j \in Reads : passLog[j].ev.key = PooledTextTimestep /\ WritesBefore(j) # {}

\* C9: once set_image_embedding(e) has been called, every forward pass over
\* the injected adapter reads e at the key and value branches of every
\* ImageCrossAttention, also in later passes with no call in between.
ImageEmbeddingReadInEveryPass ==
    (lastOp = "forward" /\ injected[IP] /\ lastImage # None) =>
        /\ \A j \in Reads :
              passLog[j].ev.key = ImageEmbedding => passLog[j].val = lastImage
        /\ lastErr = OK =>
              \A k \in Subs : \A b \in {"key", "value"} :
                  \E j \in Reads : passLog[j].ev = Ev("use", ICA(k), b, ImageEmbedding)

\* The second pass since the embedding was set has run.
ImageEmbeddingReadInEveryPassWitness ==
    /\ lastOp = "forward" /\ lastErr = OK /\ injected[IP]
    /\ passesSinceSet >= 2 /\ lastImage # None /\ Len(sub_adapters) >= 2

(***************************************************************************)
(* Properties of compute_image_embedding (SpecEmbed).                      *)
(***************************************************************************)
WeightOf(i) == IF embWeights.given THEN embWeights.list[i] ELSE 1

\* C10: a weights list of another length than the batch fails; otherwise the
\* result is the negative embedding followed by the conditional embedding,
\* weight i multiplying only the conditional embedding of image i, and the
\* per-image embeddings are joined along the sequence axis, after the
\* weighting, exactly when the batch has several images and concat_batches.
WeightedThenConcatenated ==
    lastOp = "compute" =>
        LET b == Len(image_prompt)
            pair == ComputeImageEmbeddingPair(image_prompt, div_factor, fine_grained)
            negRows == pair.negative
            condRows == [i \in 1..b |->
                            [t \in 1..NumTokens |-> WeightOf(i) * pair.conditional[i][t]]]
        IN IF embWeights.given /\ Len(embWeights.list) # b
           THEN lastErr = AssertionError
           ELSE /\ lastErr = OK
                /\ IF b > 1 /\ concat_batches
                   THEN /\ Len(embResult) = 2
                        /\ Len(embResult[1]) = b * NumTokens
                        /\ \A i \in 1..b : \A t \in 1..NumTokens :
                              /\ embResult[1][(i - 1) * NumTokens + t] = negRows[i][t]
                              /\ embResult[2][(i - 1) * NumTokens + t] = condRows[i][t]
                   ELSE /\ Len(embResult) = 2 * b
                        /\ \A i \in 1..b :
                              embResult[i] = negRows[i] /\ embResult[b + i] = condRows[i]

\* A batch of two images with weights 1.0 and another value was joined.
WeightedThenConcatenatedWitness ==
    /\ lastOp = "compute" /\ lastErr = OK
    /\ Len(image_prompt) = 2 /\ concat_batches
    /\ embWeights.given /\ embWeights.list[1] = 1 /\ embWeights.list[2] # 1
    /\ image_prompt[1] # image_prompt[2]

(***************************************************************************)
(* Properties of the constructors (SpecBuild).                             *)
(***************************************************************************)
\* The chains an adapter built so far owns, and the chains of the target.
OwnedChains == DOMAIN children \ DOMAIN TargetTree(nBlocks, hasParent)
CopiedChains == {c \in OwnedChains : Kind(c) \in {"clone", "sum"}}

\* C11: after building any CrossAttentionAdapter or the composite IPAdapter,
\* and before any inject, every chain of the original tree (the target's
\* parent, the target, the blocks, the attention layers) holds exactly its
\* original children; the Sum(scaled dot product, ImageCrossAttention) sits
\* in the clone's child list only; no chain of a copy is a chain of the
\* target; every adapter built is NOT_INJECTED; and the composite's state is
\* the state after construction of the life-cycle model.
ConstructionLeavesTreeUnchanged ==
    /\ \A c \in DOMAIN TargetTree(nBlocks, hasParent) :
          children[c] = TargetTree(nBlocks, hasParent)[c]
    /\ \A a \in DOMAIN target : Kind(a) = "xadapter" =>
          /\ Contains(children[Clone(a[2])], SumN(a[2]))
          /\ ~Contains(children[Clone(a[2])], SDPAc(a[2]))
          /\ children[SumN(a[2])] = <<SDPAc(a[2]), ICA(a[2])>>
          /\ ~Contains(children[target[a]], SumN(a[2]))
          /\ children[a] = <<Clone(a[2])>>
    /\ CopiedChains \cap DOMAIN TargetTree(nBlocks, hasParent) = {}
    /\ \A c \in CopiedChains : \A d \in DOMAIN TargetTree(nBlocks, hasParent) :
          \A j \in 1..Len(children[c]) : ~Contains(children[d], children[c][j])
    /\ \A a \in DOMAIN injected : ~injected[a]
    /\ IP \in DOMAIN target =>
          /\ children = ConstructedTree(nBlocks, hasParent)
          /\ sub_adapters = SubAdapters(nBlocks)
          /\ target = [a \in Adapters(nBlocks) |-> Target(nBlocks, a)]
          /\ parentOf = [a \in Adapters(nBlocks) |-> CapturedParent(nBlocks, hasParent, a)]

\* The composite has been built on a target of two blocks inside a host chain.
ConstructionLeavesTreeUnchangedWitness ==
    /\ lastOp = "new_ip_adapter" /\ hasParent /\ Len(sub_adapters) >= 2
    /\ children[Host] = <<Pre, UNet, Post>>
    /\ Contains(children[Clone(1)], SumN(1))

(***************************************************************************)
(* The order of the steps of inject and eject (Spec).                      *)
(***************************************************************************)
NumSubs == Len(sub_adapters)
AuxSteps == IF usePooled THEN 1 ELSE 0
\* The steps of the sub-adapters come first, in sub_adapters order.
SubStepsFirst(step) ==
    \A j \in 1..Len(opLog) : j <= NumSubs => opLog[j] = StepOf(step, sub_adapters[j])
Completed == Len(opLog) = NumSubs + AuxSteps + 1

\* C12: a completed eject has ejected every sub-adapter, then
\* restored the parent's slot, then removed the projector it had prepended,
\* and leaves the composite NOT_INJECTED.
EjectRestoresSlotThenRemovesAux ==
    (lastOp = "eject" /\ lastErr = OK) =>
        /\ Completed /\ SubStepsFirst("eject")
        /\ opLog[NumSubs + 1] = StepOf("eject", IP)
        /\ usePooled => opLog[NumSubs + 2].step = "pop"
        /\ ~injected[IP]

\* The position of the projector in the walk of the target, and of the
\* ImageCrossAttention nodes.
TargetWalk == WalkSeq(children, <<UNet>>)
ProjBeforeImageCrossAttention ==
    \A j \in 1..Len(TargetWalk) : Kind(TargetWalk[j]) = "ica" =>
        \E i \in 1..(j - 1) : TargetWalk[i] = Proj

\* C13 as claimed: a completed inject has injected every sub-adapter in
\* order before putting the composite in the target's slot, and with the
\* pooled-text option the projector is at position 0 of the target's parent.
InjectPrependsProjToParent ==
    (lastOp = "inject" /\ lastErr = OK) =>
        /\ Completed /\ SubStepsFirst("inject")
        /\ opLog[Len(opLog)] = StepOf("inject", IP)
        /\ (usePooled /\ parentOf[IP] # NoNode) =>
              Head(children[parentOf[IP]]) = Proj

\* C13 amended: an inject injects every sub-adapter in order, then (pooled-
\* text option) inserts the projector at position 0 of the target itself,
\* and last puts the composite in the target's slot; an inject that raises
\* has completed a proper prefix of these steps; after a completed inject
\* the projector is the first child of the target, is no child of the
\* target's parent, and precedes every ImageCrossAttention of the target.
InjectPrependsProjToTarget ==
    lastOp = "inject" =>
        /\ Len(opLog) <= NumSubs + AuxSteps + 1
        /\ SubStepsFirst("inject")
        /\ (usePooled /\ Len(opLog) > NumSubs) =>
              opLog[NumSubs + 1] = StepOf("insert", Proj)
        /\ Len(opLog) > NumSubs + AuxSteps =>
              opLog[NumSubs + AuxSteps + 1] = StepOf("inject", IP)
        /\ lastErr = OK <=> Completed
        /\ (lastErr = OK /\ usePooled) =>
              /\ Head(children[UNet]) = Proj
              /\ parentOf[IP] # NoNode => ~Contains(children[parentOf[IP]], Proj)
              /\ ProjBeforeImageCrossAttention
        /\ lastErr = OK => injected[IP]

\* A pooled-text composite with two sub-adapters, in a host chain, was
\* injected without error.
InjectPrependsProjToTargetWitness ==
    /\ lastOp = "inject" /\ lastErr = OK /\ usePooled /\ hasParent /\ NumSubs >= 2
    /\ opLog[NumSubs + 1] = StepOf("insert", Proj)
    /\ children[Host] = <<Pre, IP, Post>>
    /\ \E j \in 1..Len(TargetWalk) : TargetWalk[j] = ICA(1)

(***************************************************************************)
(* The pooled-text encoder and its readers (SpecCtx).                      *)
(***************************************************************************)
PooledPass == lastOp = "forward" /\ usePooled /\ injected[IP]

\* C14: in a pass over an injected pooled-text adapter after
\* set_pooled_text_embedding, every read of pooled_text_timestep_embedding
\* by an ImageCrossAttention comes after the encoder's write of that pass
\* and forwards exactly the value the encoder derived in that pass from the
\* pooled text embedding last set; it is never a ContextMiss.  When
\* set_pooled_text_embedding was never called, the pass fails with
\* ContextMiss at the encoder's read, before anything else is read.
EncoderRunsBeforeItsReaders ==
    /\ (PooledPass /\ PooledText \in written) =>
          /\ passLog # <<>> /\ passLog[1].ev = Ev("use", Proj, "", PooledText)
          /\ passLog[1].val = ctx[PooledText]
          /\ \A j \in Reads : passLog[j].ev.key = PooledTextTimestep =>
                /\ WritesBefore(j) # {}
                /\ passLog[LastOf(WritesBefore(j))].ev.node = Proj
                /\ passLog[j].val = Linear(ctx[PooledText])
                /\ ~IsMiss(j)
    /\ (PooledPass /\ PooledText \notin written) =>
          /\ lastErr = ContextMiss
          /\ Len(passLog) = 1
          /\ passLog[1].ev = Ev("use", Proj, "", PooledText)

\* A completed pass, not the first since the image embedding was set, in
\* which both ImageCrossAttention nodes read what the encoder derived from
\* the largest pooled text embedding.
EncoderRunsBeforeItsReadersWitness ==
    /\ PooledPass /\ lastErr = OK /\ Len(sub_adapters) >= 2
    /\ passesSinceSet >= 2
    /\ ctx[PooledText] = MaxVal
    /\ \A k \in Subs : \E j \in Reads :
          /\ passLog[j].ev = Ev("use", ICA(k), "value", PooledTextTimestep)
          /\ passLog[j].val = Linear(MaxVal)

(***************************************************************************)
(* Failing calls (Spec) and a shared target (SpecShared).                  *)
(***************************************************************************)
\* C15: an inject or eject of the composite that raises InvalidAdapterState
\* leaves every child list of the tree (so also the projectors in the
\* target) and the injection state of the composite and of every
\* sub-adapter as they were before the call.
FailedCompositeCallIsAtomic ==
    [][ ((Inject \/ Eject) /\ lastErr' = InvalidAdapterState) =>
            (children' = children /\ injected' = injected) ]_vars

IsProj(n) == n = Proj
NotProj(n) == n # Proj

\* C16: an eject of a pooled-text composite that completes removes from the
\* target its own projector and no other node, whatever was inserted in the
\* target since the inject; and once every adapter is ejected the target
\* holds no projector.
EjectRemovesOwnProjector ==
    [][ (Eject /\ lastErr' = OK /\ usePooled) =>
            /\ SelectSeq(children'[UNet], NotProj) = SelectSeq(children[UNet], NotProj)
            /\ Len(SelectSeq(children'[UNet], IsProj))
                   = Len(SelectSeq(children[UNet], IsProj)) - 1
            /\ ~Contains(children'[UNet], Proj) ]_vars

(***************************************************************************)
(* The range of the timesteps (SpecDDIM).                                  *)
(***************************************************************************)
\* C17: for 1 <= N <= T every timestep lies in 0..T-1, so that every step
\* reads cumulative_scale_factors (T entries) inside the table and no step
\* fails.
TimestepsInTableRange ==
    num_inference_steps <= num_train_timesteps =>
        /\ \A i \in 1..Len(timesteps) :
              0 <= timesteps[i] /\ timesteps[i] <= num_train_timesteps - 1
        /\ lastOp = "step" => lastErr = OK

(***************************************************************************)
(* SD1IPAdapter and get_sd1_image_proj (SpecSD1).                          *)
(***************************************************************************)
\* C18: SD1IPAdapter built on a valid target with its optional arguments at
\* their defaults (no image_proj, not fine-grained, use_bias) completes.
SD1ConstructionCompletes ==
    (/\ lastOp = "sd1_init"
     /\ sd1Args.image_proj = "none" /\ ~sd1Args.fine_grained /\ sd1Args.use_bias) =>
        lastErr = OK

\* C19: the projection is built with the given device, or the target's when
\* none is given, and with the given dtype, or the target's when none is
\* given, whatever the other argument is.
ProjDeviceAndDTypeIndependent ==
    lastOp = "get_sd1_image_proj" =>
        /\ sd1Result.device =
              (IF sd1Args.device = None THEN sd1Args.target_device ELSE sd1Args.device)
        /\ sd1Result.dtype =
              (IF sd1Args.dtype = None THEN sd1Args.target_dtype ELSE sd1Args.dtype)
        /\ sd1Result.dtype # None

====
